---- MODULE Spec2Model ----
(***************************************************************************)
(* State-machine model of src/src/context/VerifyContext.js, the React      *)
(* provider that holds the capture verification workflow: page loading,    *)
(* click / shift-click / modifier-click selection, batch approve and batch *)
(* undo, and the capture count cache.                                      *)
(*                                                                         *)
(* React semantics kept by the model:                                      *)
(*  - the useState cells are the committed state;                          *)
(*  - a handler reads the cells of the render it was created in: an async  *)
(*    handler that is suspended at an await keeps that snapshot (its       *)
(*    closure) in its task record and never sees later values;             *)
(*  - the set-calls a handler makes between two awaits are committed       *)
(*    together, and the effects whose dependencies changed run right       *)
(*    after, with the closure of the new render;                           *)
(*  - a handler invoked from outside (a click, a command) is the one of    *)
(*    the latest render.                                                   *)
(* The api (../api/treeTrackerApi) is outside the file: each of its calls  *)
(* is an await that the environment later resolves or rejects.  A capture  *)
(* image is represented by its id.                                         *)
(***************************************************************************)
EXTENDS Integers, Sequences, FiniteSets, TLC

\* ------------------------------------------------------------- bounds
MaxId == 2
MaxPage == 1
AltPageSize == 2
MaxLoads == 2
MaxBatches == 2
MaxSelected == 3
MaxImages == 3
MaxCountValue == 0

\* --------------------------------------------------- program constants
\* useState(24) of line 43
DefaultPageSize == 24
\* JavaScript's undefined (the anchor of line 39, the missing argument of line
\* 130) and null (the count of line 52): two values that are no image id
Undefined == -1
Null == -2

Ids == 0..MaxId
Pages == 0..MaxPage
PageSizes == {DefaultPageSize, AltPageSize}
Filters == {"filter0", "filter1"}
DefaultFilter == "filter0"
ApproveActions == {"absent", "approve", "rejectWithTags"}
ClickModes == {"plain", "shift", "modifier"}

VARIABLES
  captureImages,           \* WorkingSet: sequence of image ids
  captureImagesUndo,       \* UndoList: sequence of image ids
  captureImagesSelected,   \* SelectionState.selectedIds
  captureImageAnchor,      \* SelectionState.anchorId, or Undefined
  isLoading,               \* LoadingState
  isApproveAllProcessing,  \* BatchProgress.isProcessing
  approveAllComplete,      \* BatchProgress.percentComplete
  pageSize,
  currentPage,
  filter,
  invalidateCaptureCount,  \* CountState.invalid
  captureCount,            \* CountState.value, or Null
  loads,                   \* api.getCaptureImages calls in flight
  batches,                 \* approveAll / undoAll invocations suspended at an await
  counts,                  \* api.getCaptureCount calls in flight
  returned,                \* history: what completed in the last step (a batch, a page load)
  awaitingLoad             \* history: a dependency changed and its load has not resolved

vars == <<captureImages, captureImagesUndo, captureImagesSelected, captureImageAnchor,
          isLoading, isApproveAllProcessing, approveAllComplete, pageSize, currentPage,
          filter, invalidateCaptureCount, captureCount, loads, batches, counts,
          returned, awaitingLoad>>

\* ------------------------------------------------------------ helpers
Min(a, b) == IF a < b THEN a ELSE b
Max(a, b) == IF a > b THEN a ELSE b
Range(s) == {s[i] : i \in 1..Len(s)}
RemoveAt(s, k) == SubSeq(s, 1, k - 1) \o SubSeq(s, k + 1, Len(s))
NoDup(s) == \A i, j \in 1..Len(s) : s[i] = s[j] => i = j
IsAscending(s) == \A i, j \in 1..Len(s) : i < j => s[i] <= s[j]

\* Array.prototype.filter
RECURSIVE SelectSeqBy(_, _)
SelectSeqBy(s, keep) ==
  IF s = <<>> THEN <<>>
  ELSE (IF Head(s) \in keep THEN <<Head(s)>> ELSE <<>>) \o SelectSeqBy(Tail(s), keep)

\* filter((x) => x !== id)
Without(s, id) == SelectSeqBy(s, Range(s) \ {id})

\* Array.prototype.slice(start, end) with its negative-index rule; indices are 0-based
Slice(s, start, end) ==
  LET len == Len(s)
      from == IF start < 0 THEN Max(len + start, 0) ELSE Min(start, len)
      to == IF end < 0 THEN Max(len + end, 0) ELSE Min(end, len)
  IN SubSeq(s, from + 1, to)

\* reduce((a, c, i) => c.id === id ? i : a, -1): the 0-based index of the last match
IndexOfId(s, id) ==
  LET hits == {i \in 1..Len(s) : s[i] = id}
  IN IF hits = {} THEN -1 ELSE (CHOOSE i \in hits : \A j \in hits : j <= i) - 1

\* [...captureImages, captureUndo].sort((a, b) => a.id - b.id)
SortById(s) == SortSeq(s, LAMBDA a, b : a < b)

\* a progress that counts the items before the one just processed
PercentBeforeItem(done, total) == (100 * (done - 1)) \div total

\* 100 * (done / total), kept to its integer part
Percent(done, total) == (100 * done) \div total

\* the pages the api may answer: distinct ids, at most rowsPerPage of them
RECURSIVE SeqsOver(_, _)
SeqsOver(S, n) ==
  IF n = 0 THEN {<<>>}
  ELSE LET shorter == SeqsOver(S, n - 1)
       IN shorter \cup {Append(s, x) : s \in shorter, x \in S}
PageResults(rowsPerPage) ==
  {s \in SeqsOver(Ids, Min(rowsPerPage, Cardinality(Ids))) : NoDup(s)}

NoBatch == [kind |-> "none"]

\* ----------------------------------------------------------- task records
\* a suspended api.getCaptureImages call (lines 144-150); batch is the approveAll
\* invocation awaiting it (line 193), fresh tells that it was issued for the
\* filter / pageSize / currentPage that are still the committed ones
NewLoad(f, ps, cp, sig, batch, fresh) ==
  [skip |-> ps * cp, rowsPerPage |-> ps, filter |-> f, signal |-> sig, batch |-> batch,
   fresh |-> fresh]

\* what an approveAll invocation reads from the render it was called in (lines
\* 137, 144-148, 162-165, 169-170) and what an undoAll invocation reads (lines
\* 73-79, 207-211); a field the handler never reads is left at its initial value.
\* i is the loop index, pc the api call awaited, progress the last value the
\* invocation passed to setApproveAllComplete in its loop (lines 183, 215)
NewBatch(kind, action) ==
  IF kind = "approveAll"
  THEN [kind |-> kind, i |-> 0, pc |-> "call", action |-> action,
        sel |-> captureImagesSelected, imgs |-> captureImages, undoList |-> <<>>,
        isLoading |-> isLoading, pageSize |-> pageSize, currentPage |-> currentPage,
        filter |-> filter, progress |-> 0]
  ELSE [kind |-> kind, i |-> 0, pc |-> "call", action |-> action,
        sel |-> <<>>, imgs |-> captureImages, undoList |-> captureImagesUndo,
        isLoading |-> FALSE, pageSize |-> DefaultPageSize, currentPage |-> 0,
        filter |-> DefaultFilter, progress |-> 0]

\* ------------------------------------------------------------------ Init
\* the state after the first render and its two effects (lines 36-64): the count
\* fetch and the first page load are in flight
Init ==
  /\ captureImages = <<>>
  /\ captureImagesUndo = <<>>
  /\ captureImagesSelected = <<>>
  /\ captureImageAnchor = Undefined
  /\ isLoading = TRUE
  /\ isApproveAllProcessing = FALSE
  /\ approveAllComplete = 0
  /\ pageSize = DefaultPageSize
  /\ currentPage = 0
  /\ filter = DefaultFilter
  /\ invalidateCaptureCount = TRUE
  /\ captureCount = Null
  /\ loads = <<[skip |-> 0, rowsPerPage |-> DefaultPageSize, filter |-> DefaultFilter,
                signal |-> "live", batch |-> NoBatch, fresh |-> TRUE]>>
  /\ batches = <<>>
  /\ counts = <<[filter |-> DefaultFilter, fresh |-> TRUE]>>
  /\ returned = NoBatch
  /\ awaitingLoad = FALSE

\* ------------------------------------------------------------- effects
\* useEffect on [invalidateCaptureCount] (lines 54-56) after a handler called
\* setInvalidateCaptureCount(true): the effect runs when the cell changed, and
\* getCaptureCount reads the filter of the new render, f.  fresh tells that a
\* count fetch was issued after the last call of setInvalidateCaptureCount(true)
InvalidateCount(f) ==
  LET earlier == [k \in 1..Len(counts) |-> [counts[k] EXCEPT !.fresh = FALSE]]
  IN /\ invalidateCaptureCount' = TRUE
     /\ counts' = IF invalidateCaptureCount THEN earlier
                  ELSE Append(earlier, [filter |-> f, fresh |-> TRUE])

\* useEffect on [filter, pageSize, currentPage] (lines 59-64) after one of them
\* changed to f, ps, cp: the cleanup of the previous run aborts its controller,
\* the WorkingSet is cleared and loadCaptureImages (lines 134-150) runs with the
\* closure of the new render
LoadEffect(f, ps, cp) ==
  LET aborted == [k \in 1..Len(loads) |->
                    [loads[k] EXCEPT !.signal = IF @ = "live" THEN "aborted" ELSE @,
                                     !.fresh = FALSE]]
  IN /\ captureImages' = <<>>
     /\ awaitingLoad' = TRUE
     /\ IF isLoading
        THEN /\ loads' = aborted
             /\ UNCHANGED isLoading
        ELSE /\ isLoading' = TRUE
             /\ loads' = Append(aborted, NewLoad(f, ps, cp, "live", NoBatch, TRUE))

\* ------------------------------------------------------------ selection
\* captureImagesSelected.find((el) => el === captureId) used as a condition
\* (line 286): the element found, taken as a boolean
FindIsTruthy(sel, captureId) == captureId \in Range(sel) /\ captureId # 0

\* lines 259-268: the anchor's index, 0 without an anchor
IndexAnchor(images, anchor) ==
  IF anchor # Undefined THEN IndexOfId(images, anchor) ELSE 0

\* clickCapture (lines 250-296) as a function of the cells it reads: the new
\* captureImagesSelected.  mode is "plain" without a key, "shift" with isShift,
\* "modifier" with isCmd or isCtrl and no isShift
ClickSelectedOn(images, selected, anchor, mode, captureId) ==
  CASE mode = "plain" -> <<captureId>>
    [] mode = "shift" ->
         LET indexAnchor == IndexAnchor(images, anchor)
             indexCurrent == IndexOfId(images, captureId)
         IN Slice(images, Min(indexAnchor, indexCurrent),
                  Max(indexAnchor, indexCurrent) + 1)
    [] mode = "modifier" ->
         IF FindIsTruthy(selected, captureId)
         THEN Without(selected, captureId)
         ELSE Append(selected, captureId)

ClickSelected(mode, captureId) ==
  ClickSelectedOn(captureImages, captureImagesSelected, captureImageAnchor, mode,
                  captureId)

\* clickCapture (lines 253-255): only the plain click moves the anchor
ClickAnchor(mode, captureId) ==
  IF mode = "plain" THEN captureId ELSE captureImageAnchor

\* a click on a rendered capture; a shift-click may carry any id
ClickCapture(mode, captureId) ==
  /\ mode = "shift" \/ captureId \in Range(captureImages)
  /\ captureImagesSelected' = ClickSelected(mode, captureId)
  /\ captureImageAnchor' = ClickAnchor(mode, captureId)
  /\ returned' = NoBatch
  /\ UNCHANGED <<captureImages, captureImagesUndo, isLoading, isApproveAllProcessing,
                 approveAllComplete, pageSize, currentPage, filter,
                 invalidateCaptureCount, captureCount, loads, batches, counts,
                 awaitingLoad>>

\* ------------------------------------------- filter, page size, page number
\* updateFilter (lines 235-240) with reset (87-92) and resetSelection (96-99),
\* then the effects of the new render
UpdateFilter(updatedFilter) ==
  /\ filter' = updatedFilter
  /\ currentPage' = 0
  /\ captureCount' = Null
  /\ InvalidateCount(updatedFilter)
  /\ captureImagesSelected' = <<>>
  /\ captureImageAnchor' = Undefined
  /\ IF updatedFilter # filter \/ currentPage # 0
     THEN LoadEffect(updatedFilter, pageSize, 0)
     ELSE /\ captureImages' = <<>>
          /\ UNCHANGED <<isLoading, loads, awaitingLoad>>
  /\ returned' = NoBatch
  /\ UNCHANGED <<captureImagesUndo, isApproveAllProcessing, approveAllComplete,
                 pageSize, batches>>

\* setPageSize (line 43) and the load effect
SetPageSize(n) ==
  /\ n # pageSize
  /\ pageSize' = n
  /\ LoadEffect(filter, n, currentPage)
  /\ returned' = NoBatch
  /\ UNCHANGED <<captureImagesUndo, captureImagesSelected, captureImageAnchor,
                 isApproveAllProcessing, approveAllComplete, currentPage, filter,
                 invalidateCaptureCount, captureCount, batches, counts>>

\* setCurrentPage (line 44) and the load effect
SetCurrentPage(p) ==
  /\ p # currentPage
  /\ currentPage' = p
  /\ LoadEffect(filter, pageSize, p)
  /\ returned' = NoBatch
  /\ UNCHANGED <<captureImagesUndo, captureImagesSelected, captureImageAnchor,
                 isApproveAllProcessing, approveAllComplete, pageSize, filter,
                 invalidateCaptureCount, captureCount, batches, counts>>

\* resetSelection (lines 96-99)
ResetSelection ==
  /\ captureImagesSelected' = <<>>
  /\ captureImageAnchor' = Undefined

\* ------------------------------------------------------------ page loads
\* lines 193-199 of approveAll, after its reload: the batch is over
ApproveAllTail(t) ==
  /\ isApproveAllProcessing' = FALSE
  /\ approveAllComplete' = 0
  /\ InvalidateCount(filter)
  /\ ResetSelection
  /\ returned' = [kind |-> "approveAll", ok |-> TRUE, cause |-> "none", task |-> t,
                   calls |-> t.sel]

\* loadCaptureImages called by a consumer of the context (lines 134-150, exposed
\* at line 311) with no abort controller: the handler of the latest render
LoadCaptureImages ==
  /\ IF isLoading
     THEN UNCHANGED <<isLoading, loads>>
     ELSE /\ isLoading' = TRUE
          /\ loads' = Append(loads, NewLoad(filter, pageSize, currentPage, "none",
                                            NoBatch, TRUE))
  /\ returned' = NoBatch
  /\ UNCHANGED <<captureImages, captureImagesUndo, captureImagesSelected,
                 captureImageAnchor, isApproveAllProcessing, approveAllComplete,
                 pageSize, currentPage, filter, invalidateCaptureCount, captureCount,
                 batches, counts, awaitingLoad>>

\* api.getCaptureImages answers (lines 150-154); when approveAll awaits this load
\* (line 193) its lines 194-199 follow
FetchPageResolve(k, result) ==
  /\ k \in 1..Len(loads)
  /\ result \in PageResults(loads[k].rowsPerPage)
  /\ captureImages' = result
  /\ isLoading' = FALSE
  /\ loads' = RemoveAt(loads, k)
  /\ awaitingLoad' = IF loads[k].fresh THEN FALSE ELSE awaitingLoad
  /\ IF loads[k].batch.kind = "none"
     THEN /\ returned' = [kind |-> "load", ok |-> TRUE, task |-> loads[k]]
          /\ UNCHANGED <<captureImagesSelected, captureImageAnchor, isApproveAllProcessing,
                         approveAllComplete, invalidateCaptureCount, counts>>
     ELSE ApproveAllTail(loads[k].batch)
  /\ UNCHANGED <<captureImagesUndo, pageSize, currentPage, filter, captureCount, batches>>

\* api.getCaptureImages rejects (an aborted or a failed fetch): the await of line
\* 150 throws, nothing catches it, and an approveAll awaiting the load (line 193,
\* outside its try) throws with it
FetchPageReject(k) ==
  /\ k \in 1..Len(loads)
  /\ loads' = RemoveAt(loads, k)
  /\ returned' = IF loads[k].batch.kind = "none" THEN NoBatch
                 ELSE [kind |-> "approveAllThrew", ok |-> FALSE, cause |-> "reload",
                       task |-> loads[k].batch, calls |-> loads[k].batch.sel]
  /\ UNCHANGED <<captureImages, captureImagesUndo, captureImagesSelected,
                 captureImageAnchor, isLoading, isApproveAllProcessing,
                 approveAllComplete, pageSize, currentPage, filter,
                 invalidateCaptureCount, captureCount, batches, counts, awaitingLoad>>

\* ------------------------------------------------------------ approveAll
Put(k, t) == IF k = 0 THEN Append(batches, t) ELSE [batches EXCEPT ![k] = t]
Drop(k) == IF k = 0 THEN batches ELSE RemoveAt(batches, k)

\* lines 163-165: the images of the closure's WorkingSet that are selected
UndoSnapshot(t) == SelectSeqBy(t.imgs, Range(t.sel))

\* a catch block that leaves both flags raised, as the one of undoAll does
ApproveCatchFlagRaised == TRUE

\* lines 187-188: the flags the catch block of approveAll leaves
ApproveCatchFlag == FALSE

\* approve's api call for item t.i is issued and awaited (lines 169-182, 107-119)
ApproveAwait(t, k, pct, starting) ==
  /\ batches' = Put(k, [t EXCEPT !.pc = "call"])
  /\ isLoading' = IF starting THEN TRUE ELSE isLoading
  /\ isApproveAllProcessing' = IF starting THEN TRUE ELSE isApproveAllProcessing
  /\ approveAllComplete' = pct
  /\ returned' = NoBatch
  /\ UNCHANGED <<captureImages, captureImagesUndo, captureImagesSelected,
                 captureImageAnchor, pageSize, currentPage, filter,
                 invalidateCaptureCount, captureCount, loads, counts, awaitingLoad>>

\* the catch block (lines 185-190).  cause is what threw: "call" or "tags" (the
\* api call awaited for item t.i rejected), "noImage" (captureImage is undefined
\* at line 177) or "noAction" (line 105); calls are the ids whose approve or
\* reject call was issued
ApproveCatch(t, k, pct, cause) ==
  /\ batches' = Drop(k)
  /\ isLoading' = ApproveCatchFlag
  /\ isApproveAllProcessing' = ApproveCatchFlag
  /\ approveAllComplete' = pct
  /\ returned' = [kind |-> "approveAll", ok |-> FALSE, cause |-> cause, task |-> t,
                   calls |-> SubSeq(t.sel, 1, IF cause \in {"call", "tags"}
                                              THEN t.i + 1 ELSE t.i)]
  /\ UNCHANGED <<captureImages, captureImagesUndo, captureImagesSelected,
                 captureImageAnchor, pageSize, currentPage, filter,
                 invalidateCaptureCount, captureCount, loads, counts, awaitingLoad>>

\* after the loop (lines 191-199): the undo list is installed and the page is
\* reloaded by loadCaptureImages, which reads isLoading, pageSize, currentPage
\* and filter from the closure of the approveAll invocation
ApproveFinish(t, k, pct, starting) ==
  /\ captureImagesUndo' = UndoSnapshot(t)
  /\ batches' = Drop(k)
  /\ IF t.isLoading
     THEN /\ isLoading' = FALSE
          /\ ApproveAllTail(t)
          /\ UNCHANGED <<captureImages, loads, awaitingLoad>>
     ELSE /\ isLoading' = TRUE
          /\ loads' = Append(loads,
               NewLoad(t.filter, t.pageSize, t.currentPage, "none", t,
                       t.filter = filter /\ t.pageSize = pageSize
                         /\ t.currentPage = currentPage))
          /\ isApproveAllProcessing' = IF starting THEN TRUE ELSE isApproveAllProcessing
          /\ approveAllComplete' = pct
          /\ returned' = NoBatch
          /\ UNCHANGED <<captureImages, captureImagesSelected, captureImageAnchor,
                         invalidateCaptureCount, counts, awaitingLoad>>
  /\ UNCHANGED <<pageSize, currentPage, filter, captureCount>>

\* the for loop of approveAll from item t.i on, up to the next await (lines 168-182)
ApproveIterate(t, k, pct, starting) ==
  IF t.i >= Len(t.sel) THEN ApproveFinish(t, k, pct, starting)
  ELSE IF t.sel[t.i + 1] \notin Range(t.imgs) THEN ApproveCatch(t, k, pct, "noImage")
  ELSE IF t.action = "absent" THEN ApproveCatch(t, k, pct, "noAction")
  ELSE ApproveAwait(t, k, pct, starting)

\* approveAll is called (lines 157-166) and runs to its first await
ApproveAll(approveAction) ==
  ApproveIterate(NewBatch("approveAll", approveAction), 0, approveAllComplete, TRUE)

\* an api call of approve answers: approveCaptureImage / rejectCaptureImage
\* (lines 109-118), then createCaptureTags when the action has tags (121-123),
\* then line 183 and the next item
ApproveCallResolve(k) ==
  /\ k \in 1..Len(batches)
  /\ batches[k].kind = "approveAll"
  /\ LET t == batches[k]
     IN IF t.pc = "call" /\ t.action = "rejectWithTags"
        THEN /\ batches' = [batches EXCEPT ![k].pc = "tags"]
             /\ returned' = NoBatch
             /\ UNCHANGED <<captureImages, captureImagesUndo, captureImagesSelected,
                            captureImageAnchor, isLoading, isApproveAllProcessing,
                            approveAllComplete, pageSize, currentPage, filter,
                            invalidateCaptureCount, captureCount, loads, counts,
                            awaitingLoad>>
        ELSE ApproveIterate([t EXCEPT !.i = @ + 1, !.pc = "call",
                                      !.progress = Percent(t.i + 1, Len(t.sel))],
                            k, Percent(t.i + 1, Len(t.sel)), FALSE)

\* an api call of approve rejects: approve throws into the catch block
ApproveCallReject(k) ==
  /\ k \in 1..Len(batches)
  /\ batches[k].kind = "approveAll"
  /\ ApproveCatch(batches[k], k, approveAllComplete, batches[k].pc)

\* --------------------------------------------------------------- undoAll
\* captureImagesUndo.reduce((a, c) => c.id === captureId ? c : a) (lines 73-75):
\* no initial value, so the fold starts from the first entry
ReduceUndo(list, captureId) ==
  LET hits == {i \in 2..Len(list) : list[i] = captureId}
  IN IF hits = {} THEN list[1] ELSE list[CHOOSE i \in hits : \A j \in hits : j <= i]

\* undoedCaptureImage(state, captureId) (lines 71-84) in the closure t: the new
\* captureImages and the new captureImagesUndo
UndoedCaptures(t, state, captureId) ==
  SortById(Append(t.imgs, ReduceUndo(t.undoList, captureId)))
UndoedUndoList(t, state, captureId) ==
  Without(t.undoList, captureId)

\* undoCaptureImage calls undoedCaptureImage(id) (line 130): the id is bound to
\* the first parameter, state, and captureId is undefined
UndoneCaptureId(id) == Undefined

\* lines 226-232
UndoFinish(t, k) ==
  /\ batches' = Drop(k)
  /\ isLoading' = FALSE
  /\ isApproveAllProcessing' = FALSE
  /\ approveAllComplete' = 0
  /\ InvalidateCount(filter)
  /\ ResetSelection
  /\ returned' = [kind |-> "undoAll", ok |-> TRUE, task |-> t]

\* undoAll is called (lines 202-213) and runs to its first await
UndoAll ==
  /\ LET t == NewBatch("undoAll", "none")
     IN IF Len(t.undoList) = 0
        THEN /\ UndoFinish(t, 0)
             /\ UNCHANGED <<captureImages, captureImagesUndo>>
        ELSE /\ batches' = Append(batches, t)
             /\ isLoading' = TRUE
             /\ isApproveAllProcessing' = TRUE
             /\ returned' = NoBatch
             /\ UNCHANGED <<captureImages, captureImagesUndo, captureImagesSelected,
                            captureImageAnchor, approveAllComplete,
                            invalidateCaptureCount, counts>>
  /\ UNCHANGED <<pageSize, currentPage, filter, captureCount, loads, awaitingLoad>>

\* api.undoCaptureImage answers (line 129): undoedCaptureImage, then lines 215-216
\* and the next entry, or lines 226-232
UndoCallResolve(k) ==
  /\ k \in 1..Len(batches)
  /\ batches[k].kind = "undoAll"
  /\ LET t == batches[k]
         id == t.undoList[t.i + 1]
     IN /\ captureImages' = UndoedCaptures(t, id, UndoneCaptureId(id))
        /\ captureImagesUndo' = UndoedUndoList(t, id, UndoneCaptureId(id))
        /\ IF t.i + 1 < Len(t.undoList)
           THEN /\ batches' = [batches EXCEPT ![k].i = t.i + 1,
                                              ![k].progress =
                                                Percent(t.i + 1, Len(t.undoList))]
                /\ approveAllComplete' = Percent(t.i + 1, Len(t.undoList))
                /\ InvalidateCount(filter)
                /\ returned' = NoBatch
                /\ UNCHANGED <<captureImagesSelected, captureImageAnchor, isLoading,
                               isApproveAllProcessing>>
           ELSE UndoFinish([t EXCEPT !.i = @ + 1,
                                     !.progress = Percent(t.i + 1, Len(t.undoList))],
                           k)
  /\ UNCHANGED <<pageSize, currentPage, filter, captureCount, loads, awaitingLoad>>

\* a catch block that resets both flags, as the one of approveAll does
UndoCatchFlagReset == FALSE

\* lines 222-223: the flags the catch block of undoAll leaves
UndoCatchFlag == TRUE

\* api.undoCaptureImage rejects: the catch block (lines 218-225)
UndoCallReject(k) ==
  /\ k \in 1..Len(batches)
  /\ batches[k].kind = "undoAll"
  /\ batches' = RemoveAt(batches, k)
  /\ isLoading' = UndoCatchFlag
  /\ isApproveAllProcessing' = UndoCatchFlag
  /\ returned' = [kind |-> "undoAll", ok |-> FALSE, task |-> batches[k]]
  /\ UNCHANGED <<captureImages, captureImagesUndo, captureImagesSelected,
                 captureImageAnchor, approveAllComplete, pageSize, currentPage, filter,
                 invalidateCaptureCount, captureCount, loads, counts, awaitingLoad>>

\* ----------------------------------------------------------- count cache
\* api.getCaptureCount answers (lines 245-247)
FetchCountResolve(k, n) ==
  /\ k \in 1..Len(counts)
  /\ captureCount' = n
  /\ invalidateCaptureCount' = FALSE
  /\ counts' = RemoveAt(counts, k)
  /\ returned' = [kind |-> "count", ok |-> TRUE, task |-> counts[k]]
  /\ UNCHANGED <<captureImages, captureImagesUndo, captureImagesSelected,
                 captureImageAnchor, isLoading, isApproveAllProcessing,
                 approveAllComplete, pageSize, currentPage, filter, loads, batches,
                 awaitingLoad>>

\* ------------------------------------------------------- specifications
\* The program is checked under five environments.  Each one issues a part of
\* the commands and answers a part of the api calls, so each behaviour below is
\* a behaviour of the program.  The caps (MaxLoads, MaxBatches, MaxSelected,
\* MaxImages) stop the environment from issuing a command, never the program
\* from completing one.
SomePages == {<<>>, <<1, 2>>}
OnePage == {<<1, 2>>}
LoadSlot == Len(loads) < MaxLoads
NoLoad == loads = <<>>

\* page fetches in flight whose controller was not aborted
LiveLoads == {k \in 1..Len(loads) : loads[k].signal # "aborted"}

\* approveAll / undoAll invocations that have not returned: suspended at an api
\* call, or at the reload of line 193
InFlightBatches ==
  Len(batches) + Cardinality({k \in 1..Len(loads) : loads[k].batch.kind # "none"})

\* Page loading: filter, page size and page number changes, direct calls of
\* loadCaptureImages, batches over an empty selection or an empty undo list, page
\* and count fetches answered or failed.  No capture is ever clicked.
NextLoad ==
  \/ \E f \in Filters : LoadSlot /\ UpdateFilter(f)
  \/ \E n \in PageSizes : LoadSlot /\ SetPageSize(n)
  \/ \E p \in Pages : LoadSlot /\ SetCurrentPage(p)
  \/ \E k \in 1..Len(loads), result \in SomePages : FetchPageResolve(k, result)
  \/ \E k \in 1..Len(loads) : FetchPageReject(k)
  \/ \E a \in ApproveActions : LoadSlot /\ ApproveAll(a)
  \/ UndoAll
  \/ LoadSlot /\ LoadCaptureImages
  \/ \E k \in 1..Len(counts), n \in 0..MaxCountValue : FetchCountResolve(k, n)

SpecLoad == Init /\ [][NextLoad]_vars

\* Selection: every kind of click on every id, page changes, and pages of any
\* distinct ids.  No batch is started.
NextSelect ==
  \/ \E mode \in ClickModes, captureId \in Ids :
       /\ mode = "modifier" => Len(captureImagesSelected) < MaxSelected
       /\ ClickCapture(mode, captureId)
  \/ \E p \in Pages : LoadSlot /\ SetCurrentPage(p)
  \/ \E k \in 1..Len(loads), result \in PageResults(MaxId + 1) :
       FetchPageResolve(k, result)

SpecSelect == Init /\ [][NextSelect]_vars

\* One batch at a time: plain and modifier clicks, page changes, approveAll with
\* every kind of action, undoAll, and every api call answered or failed.  A
\* batch is started only when none is running and a command that may fetch a
\* page is issued only when no page fetch is outstanding.
NextBatch ==
  \/ \E mode \in {"plain", "modifier"}, captureId \in Ids :
       /\ mode = "modifier" => Len(captureImagesSelected) < MaxSelected
       /\ ClickCapture(mode, captureId)
  \/ \E p \in Pages : NoLoad /\ SetCurrentPage(p)
  \/ \E k \in 1..Len(loads), result \in SomePages : FetchPageResolve(k, result)
  \/ \E k \in 1..Len(loads) : FetchPageReject(k)
  \/ \E a \in ApproveActions : InFlightBatches = 0 /\ NoLoad /\ ApproveAll(a)
  \/ \E k \in 1..Len(batches) : NoLoad /\ ApproveCallResolve(k)
  \/ \E k \in 1..Len(batches) : ApproveCallReject(k)
  \/ InFlightBatches = 0 /\ Len(captureImages) < MaxImages /\ UndoAll
  \/ \E k \in 1..Len(batches) : UndoCallResolve(k)
  \/ \E k \in 1..Len(batches) : UndoCallReject(k)

SpecBatch == Init /\ [][NextBatch]_vars

\* Reentrant batches: approveAll and undoAll may be called while a batch is
\* running, up to MaxBatches at a time.  Every api call is answered.
NextOverlap ==
  \/ \E captureId \in Ids : ClickCapture("plain", captureId)
  \/ \E k \in 1..Len(loads), result \in OnePage : FetchPageResolve(k, result)
  \/ InFlightBatches < MaxBatches /\ NoLoad /\ ApproveAll("approve")
  \/ \E k \in 1..Len(batches) : NoLoad /\ ApproveCallResolve(k)
  \/ \E k \in 1..Len(batches) : ApproveCallReject(k)
  \/ InFlightBatches < MaxBatches /\ Len(captureImages) < MaxImages /\ UndoAll
  \/ \E k \in 1..Len(batches) : UndoCallResolve(k)

SpecOverlap == Init /\ [][NextOverlap]_vars

\* Page loading with fair fetches: the filter, the page size and the page number
\* change finitely often (each only forward), every page fetch that was not
\* aborted is answered with a page, and an aborted one is answered or fails.
Aborted(k) == loads[k].signal = "aborted"
LiveFetchAnswered ==
  \E k \in 1..Len(loads), result \in SomePages :
    ~Aborted(k) /\ FetchPageResolve(k, result)
AbortedFetchSettled ==
  \E k \in 1..Len(loads) :
    /\ Aborted(k)
    /\ (FetchPageReject(k) \/ \E result \in SomePages : FetchPageResolve(k, result))

NextLive ==
  \/ \E f \in Filters \ {DefaultFilter} : filter = DefaultFilter /\ UpdateFilter(f)
  \/ \E n \in PageSizes : pageSize = DefaultPageSize /\ SetPageSize(n)
  \/ \E p \in Pages : p > currentPage /\ SetCurrentPage(p)
  \/ LiveFetchAnswered
  \/ AbortedFetchSettled
  \/ \E k \in 1..Len(counts), n \in 0..MaxCountValue : FetchCountResolve(k, n)

SpecLive ==
  Init /\ [][NextLive]_vars /\ WF_vars(LiveFetchAnswered) /\ WF_vars(AbortedFetchSettled)

\* ---------------------------------------------------------------- claims
\* C1: in every reachable state at most one page fetch is in flight: a
\* loadCaptureImages call made while a load is active (from the effect or from
\* approveAll's reload) issues no second fetch.
C1_AtMostOneFetchInFlight == Cardinality(LiveLoads) <= 1

\* C2: the result of a page load that was cancelled by a filter / pageSize /
\* currentPage change is never installed into WorkingSet, also when the fetch
\* completes with a result after the change.
C2_CancelledLoadNeverInstalled ==
  ~(returned.kind = "load" /\ returned.task.signal = "aborted")

\* C3: from a change of filter, pageSize or currentPage until the load issued for
\* the new values resolves, WorkingSet is empty.
C3_EmptyUntilLoadResolves == awaitingLoad => captureImages = <<>>

\* C4: at most one batch operation (approveAll or undoAll) is in flight at any
\* time, whatever reentrant calls are made.
C4_AtMostOneBatchInFlight == InFlightBatches <= 1

\* C5: an approveAll with an approveAction over n selected ids, none of whose api
\* calls fails, issues exactly n approve / reject calls, one per selected id in
\* selection order; one whose k-th call fails has issued exactly k calls.
C5_OneCallPerSelectedId ==
  (returned.kind = "approveAll" /\ returned.task.action # "absent") =>
    /\ returned.cause \notin {"call", "tags"} => returned.calls = returned.task.sel
    /\ returned.cause \in {"call", "tags"} =>
         returned.calls = SubSeq(returned.task.sel, 1, returned.task.i + 1)

\* a step of an approveAll invocation
ApproveAllStep ==
  \/ \E a \in ApproveActions : ApproveAll(a)
  \/ \E k \in 1..Len(batches) : ApproveCallResolve(k)
  \/ \E k \in 1..Len(batches) : ApproveCallReject(k)

\* C6: when a per-item call of approveAll fails the batch halts at that item and
\* approveAll reports failure, with LoadingState and isProcessing false and no
\* page reload issued; UndoList, WorkingSet, SelectionState and the count-invalid
\* flag are changed neither by that step nor by any earlier step of the batch.
C6_FailureLeavesStateAlone ==
  [][/\ (returned'.kind = "approveAll" /\ returned'.cause # "none") =>
          /\ ~returned'.ok
          /\ isLoading' = FALSE
          /\ isApproveAllProcessing' = FALSE
          /\ loads' = loads
          /\ batches' = <<>>
          /\ UNCHANGED <<captureImagesUndo, captureImages, captureImagesSelected,
                         captureImageAnchor, invalidateCaptureCount>>
     /\ (ApproveAllStep /\ loads' = loads /\ returned'.kind # "approveAll") =>
          UNCHANGED <<captureImagesUndo, captureImages, captureImagesSelected,
                      captureImageAnchor, invalidateCaptureCount>>]_vars

\* an approveAll over two selected ids whose second approve call failed
C6_Witness ==
  /\ returned.kind = "approveAll"
  /\ returned.cause = "call"
  /\ returned.task.i = 1
  /\ Len(returned.task.sel) = 2
  /\ approveAllComplete = 50

\* C7: after a successful approveAll, UndoList holds the WorkingSet images that
\* were selected when the batch was started (by id set) and SelectionState is
\* empty.
C7_UndoListIsSnapshot ==
  (returned.kind = "approveAll" /\ returned.ok) =>
    /\ Range(captureImagesUndo) = Range(UndoSnapshot(returned.task))
    /\ captureImagesSelected = <<>>
    /\ captureImageAnchor = Undefined

\* C8: after a successful undoAll over an UndoList of m images, WorkingSet holds
\* every one of them together with its prior contents, in ascending id order,
\* and UndoList is empty.
C8_UndoAllRestoresAll ==
  (returned.kind = "undoAll" /\ returned.ok) =>
    /\ Range(returned.task.undoList) \subseteq Range(captureImages)
    /\ Range(returned.task.imgs) \subseteq Range(captureImages)
    /\ IsAscending(captureImages)
    /\ captureImagesUndo = <<>>

\* the range the claim gives a shift-click: the anchor's index, or 0 when no
\* anchor is set or the anchor is not in WorkingSet
ClaimedShiftRange(images, anchor, captureId) ==
  LET found == IndexOfId(images, anchor)
      indexAnchor == IF anchor = Undefined \/ found = -1 THEN 0 ELSE found
      indexCurrent == IndexOfId(images, captureId)
  IN SubSeq(images, Min(indexAnchor, indexCurrent) + 1,
            Max(indexAnchor, indexCurrent) + 1)

\* C9: a shift-click on an id of WorkingSet selects the WorkingSet entries from
\* min(indexAnchor, indexCurrent) to max(indexAnchor, indexCurrent) inclusive,
\* where indexAnchor is 0 when no anchor is set or the anchor is not in
\* WorkingSet; the clicked id is always selected.
C9_ShiftRange ==
  \A captureId \in Range(captureImages) :
    /\ ClickSelected("shift", captureId)
         = ClaimedShiftRange(captureImages, captureImageAnchor, captureId)
    /\ captureId \in Range(ClickSelected("shift", captureId))

\* C10: two consecutive modifier clicks on the same id leave selectedIds as it
\* was before the first one.
C10_DoubleToggle ==
  \A captureId \in Range(captureImages) :
    ClickSelectedOn(captureImages,
                    ClickSelected("modifier", captureId),
                    ClickAnchor("modifier", captureId), "modifier", captureId)
      = captureImagesSelected

\* the number of items of a batch, and the batch invocations that have not
\* returned or have returned in the last step
Total(t) == IF t.kind = "approveAll" THEN Len(t.sel) ELSE Len(t.undoList)
BatchTasks ==
  Range(batches)
    \cup {loads[k].batch : k \in {j \in 1..Len(loads) : loads[j].batch.kind # "none"}}
    \cup (IF returned.kind \in {"approveAll", "undoAll"} THEN {returned.task} ELSE {})

\* the progress every batch has reported lies in [0, 100] and is 100 once its
\* last item was processed
ProgressReported ==
  \A t \in BatchTasks :
    /\ t.progress \in 0..100
    /\ (Total(t) > 0 /\ t.i = Total(t)) => t.progress = 100

\* C11: during a batch percentComplete does not decrease from one processed
\* item to the next, stays within [0, 100], and is exactly 100 after the last
\* item processed: the value a batch displays after an item is at least the one
\* it displayed after the item before, and the one displayed when approveAll
\* has processed its last item and starts its reload is 100.
C11_ProgressMonotone ==
  [][/\ \A k \in 1..Len(batches) :
          (/\ Len(batches') = Len(batches)
           /\ batches'[k].i = batches[k].i + 1) =>
            /\ batches'[k].progress >= batches[k].progress
            /\ approveAllComplete' = batches'[k].progress
     /\ (/\ Len(loads') = Len(loads) + 1
         /\ loads'[Len(loads')].batch.kind = "approveAll"
         /\ Total(loads'[Len(loads')].batch) > 0) => approveAllComplete' = 100
     /\ ProgressReported']_vars

\* approveAll over two selected ids has processed both and awaits its reload
C11_Witness ==
  \E k \in 1..Len(loads) :
    /\ loads[k].batch.kind = "approveAll"
    /\ Len(loads[k].batch.sel) = 2
    /\ loads[k].batch.progress = 100
    /\ approveAllComplete = 100

\* C12: SelectionState (selected ids and anchor) is cleared by every change of
\* the filter, of the page size and of the page number.
C12_SelectionClearedOnChange ==
  [][(filter' # filter \/ pageSize' # pageSize \/ currentPage' # currentPage) =>
       (captureImagesSelected' = <<>> /\ captureImageAnchor' = Undefined)]_vars

\* C13: approveAll called with an absent approveAction fails for every
\* selection, the empty one included: it reports failure, has issued no approve,
\* reject or tag call, and starts no page reload.
C13_AbsentActionFails ==
  /\ (returned.kind = "approveAll" /\ returned.task.action = "absent") =>
       (~returned.ok /\ returned.calls = <<>>)
  /\ \A k \in 1..Len(loads) :
       loads[k].batch.kind = "approveAll" => loads[k].batch.action # "absent"

\* C14: in every reachable state selectedIds holds no id twice.
C14_NoDuplicateSelected == NoDup(captureImagesSelected)

\* C15: a shift-click on an id that is absent from WorkingSet changes neither
\* selectedIds nor the anchor.
C15_ShiftOnAbsentIsNoOp ==
  \A captureId \in Ids \ Range(captureImages) :
    /\ ClickSelected("shift", captureId) = captureImagesSelected
    /\ ClickAnchor("shift", captureId) = captureImageAnchor

\* C16: after a change of filter, pageSize or currentPage, when every fetch
\* that is not cancelled is answered, the page for the new values is eventually
\* loaded: a load issued for the committed values resolves, which installs its
\* page and returns LoadingState to false.
C16_LoadEventuallyPerformed == awaitingLoad ~> (~awaitingLoad /\ ~isLoading)

\* C17: a page load and a batch do not interfere: a change of filter, pageSize
\* or currentPage made while a batch is in flight leaves the batch as it is,
\* and the page load the change triggers is issued, not dropped.
C17_LoadAndBatchIndependent ==
  [][(/\ filter' # filter \/ pageSize' # pageSize \/ currentPage' # currentPage
      /\ InFlightBatches > 0
      /\ NoLoad) =>
       /\ batches' = batches
       /\ \E k \in 1..Len(loads') : loads'[k].fresh /\ loads'[k].signal = "live"]_vars

\* C18: invalid is set back to false only by the completion of a count fetch
\* that was issued after the last event that marked CountState invalid, for the
\* filter active at that event; so a count installed is never older than the
\* last invalidating event.
C18_CountFetchedAfterInvalidation ==
  returned.kind = "count" =>
    (returned.task.fresh /\ returned.task.filter = filter)

\* C19: when a per-item undo call fails during undoAll, the invocation ends
\* there: the remaining UndoList entries are not processed, undoAll reports
\* failure, and LoadingState and isProcessing are both left true.
C19_UndoFailureLeavesFlagsRaised ==
  [][(returned'.kind = "undoAll" /\ ~returned'.ok) =>
       /\ isLoading' /\ isApproveAllProcessing'
       /\ Len(batches') = Len(batches) - 1
       /\ returned'.task \notin Range(batches')
       /\ UNCHANGED <<captureImages, captureImagesUndo, approveAllComplete>>]_vars

\* undoAll over two entries whose first undo call failed
C19_Witness ==
  /\ returned.kind = "undoAll"
  /\ ~returned.ok
  /\ Len(returned.task.undoList) = 2
  /\ returned.task.i = 0
  /\ isLoading /\ isApproveAllProcessing

\* C20: in every reachable state in which isApproveAllProcessing is true,
\* isLoading is true as well.
C20_ProcessingImpliesLoading == isApproveAllProcessing => isLoading

====
